---- MODULE Spec2Model ----
(***************************************************************************)
(* Model of the bencode decoder, the metainfo (torrent) model and the      *)
(* compact peer-list decoder of src/src/main.rs.                           *)
(*                                                                         *)
(* Byte buffers are sequences of integers 0..255.  A Rust `&[u8]` slice    *)
(* `x[a..b]` (0-based, half-open) is SubSeq(x, a+1, b); the bounds check   *)
(* the slice performs is written out where the code can fail it, and a     *)
(* failed check or a failed unwrap() is the outcome "Panic".               *)
(***************************************************************************)
EXTENDS Integers, Sequences, FiniteSets, TLC

VARIABLES buf, doc, torrent, op, out

vars == <<buf, doc, torrent, op, out>>

(***************************************************************************)
(* Byte literals of the source.                                            *)
(***************************************************************************)
ByteColon == 58
ByteE == 101
ByteI == 105
ByteL == 108
ByteD == 100
ByteZero == 48
ByteNine == 57
BytePlus == 43
ByteMinus == 45

Min(a, b) == IF a < b THEN a ELSE b

Last(s) == s[Len(s)]

\* the slice x[a..] (0-based start a <= Len(x))
SliceFrom(x, a) == SubSeq(x, a + 1, Len(x))

\* iter().position(|&c| c == b): 0-based index of the first b, -1 for None
Position(x, b) ==
    IF \E i \in 1..Len(x) : x[i] = b
    THEN (CHOOSE i \in 1..Len(x) : x[i] = b /\ \A j \in 1..(i - 1) : x[j] # b) - 1
    ELSE -1

is_ascii_digit(b) == b >= ByteZero /\ b <= ByteNine

(***************************************************************************)
(* UTF-8, as str::from_utf8 and String::from_utf8_lossy see it.            *)
(***************************************************************************)
IsCont(b) == b >= 128 /\ b <= 191

\* width of the sequence a lead byte announces, 0 for a byte that leads nothing
Utf8Width(b0) ==
    IF b0 < 128 THEN 1
    ELSE IF b0 >= 194 /\ b0 <= 223 THEN 2
    ELSE IF b0 >= 224 /\ b0 <= 239 THEN 3
    ELSE IF b0 >= 240 /\ b0 <= 244 THEN 4
    ELSE 0

\* the range the second byte of a sequence led by b0 must lie in
Utf8SecondOk(b0, b1) ==
    IF b0 = 224 THEN b1 >= 160 /\ b1 <= 191
    ELSE IF b0 = 237 THEN b1 >= 128 /\ b1 <= 159
    ELSE IF b0 = 240 THEN b1 >= 144 /\ b1 <= 191
    ELSE IF b0 = 244 THEN b1 >= 128 /\ b1 <= 143
    ELSE IsCont(b1)

\* the chunk starting at 1-based index i: its length and whether it is a
\* well-formed scalar; an ill-formed chunk is the maximal prefix of a
\* well-formed sequence (at least one byte)
Utf8Chunk(x, i) ==
    LET b0 == x[i]
        w == Utf8Width(b0)
    IN  IF w = 1 THEN [n |-> 1, ok |-> TRUE]
        ELSE IF w = 0 THEN [n |-> 1, ok |-> FALSE]
        ELSE IF i + 1 > Len(x) \/ ~Utf8SecondOk(b0, x[i + 1]) THEN [n |-> 1, ok |-> FALSE]
        ELSE IF w = 2 THEN [n |-> 2, ok |-> TRUE]
        ELSE IF i + 2 > Len(x) \/ ~IsCont(x[i + 2]) THEN [n |-> 2, ok |-> FALSE]
        ELSE IF w = 3 THEN [n |-> 3, ok |-> TRUE]
        ELSE IF i + 3 > Len(x) \/ ~IsCont(x[i + 3]) THEN [n |-> 3, ok |-> FALSE]
        ELSE [n |-> 4, ok |-> TRUE]

RECURSIVE ValidFrom(_, _)
ValidFrom(x, i) ==
    IF i > Len(x) THEN TRUE
    ELSE LET c == Utf8Chunk(x, i) IN c.ok /\ ValidFrom(x, i + c.n)

\* str::from_utf8(x).is_ok()
IsValidUtf8(x) == ValidFrom(x, 1)

\* U+FFFD REPLACEMENT CHARACTER in UTF-8
Replacement == <<239, 191, 189>>

RECURSIVE LossyFrom(_, _)
LossyFrom(x, i) ==
    IF i > Len(x) THEN <<>>
    ELSE LET c == Utf8Chunk(x, i)
         IN  (IF c.ok THEN SubSeq(x, i, i + c.n - 1) ELSE Replacement)
                 \o LossyFrom(x, i + c.n)

\* String::from_utf8_lossy(x), as the bytes of the resulting text
from_utf8_lossy(x) == LossyFrom(x, 1)

(***************************************************************************)
(* str::parse::<i64>() and str::parse::<usize>().  A number is held as     *)
(* its decimal magnitude, a sequence of digits without leading zeros (the  *)
(* empty sequence is zero), so that the 64-bit limits are the real ones.   *)
(***************************************************************************)
I64MaxMag == <<9, 2, 2, 3, 3, 7, 2, 0, 3, 6, 8, 5, 4, 7, 7, 5, 8, 0, 7>>
I64MinMag == <<9, 2, 2, 3, 3, 7, 2, 0, 3, 6, 8, 5, 4, 7, 7, 5, 8, 0, 8>>
U64MaxMag == <<1, 8, 4, 4, 6, 7, 4, 4, 0, 7, 3, 7, 0, 9, 5, 5, 1, 6, 1, 5>>

\* a <= b on magnitudes
BigLeq(a, b) ==
    \/ Len(a) < Len(b)
    \/ /\ Len(a) = Len(b)
       /\ \/ a = b
          \/ \E i \in 1..Len(a) : a[i] < b[i] /\ \A j \in 1..(i - 1) : a[j] = b[j]

\* magnitude * 10 + d
MulAdd(acc, d) == IF acc = <<>> /\ d = 0 THEN <<>> ELSE Append(acc, d)

ParseFail == [ok |-> FALSE, neg |-> FALSE, mag |-> <<>>]

\* one digit without the overflow checks (wrapping or widening arithmetic)
UncheckedStep(acc, d, bound) == [ok |-> TRUE, neg |-> FALSE, mag |-> MulAdd(acc, d)]

\* one digit of the loop: result.checked_mul(10)?.checked_add(d)? (checked_sub
\* for a negative number), against the limit of the sign being parsed
ParseStep(acc, d, bound) ==
    IF ~BigLeq(MulAdd(acc, 0), bound) THEN ParseFail
    ELSE IF ~BigLeq(MulAdd(acc, d), bound) THEN ParseFail
    ELSE [ok |-> TRUE, neg |-> FALSE, mag |-> MulAdd(acc, d)]

RECURSIVE ParseDigits(_, _, _, _)
ParseDigits(digits, i, acc, bound) ==
    IF i > Len(digits) THEN [ok |-> TRUE, neg |-> FALSE, mag |-> acc]
    ELSE IF ~is_ascii_digit(digits[i]) THEN ParseFail
    ELSE LET r == ParseStep(acc, digits[i] - ByteZero, bound)
         IN  IF ~r.ok THEN ParseFail ELSE ParseDigits(digits, i + 1, r.mag, bound)

\* from_str_radix(src, 10): an empty text, a lone sign, a character that is no
\* digit and a value outside the type's range are errors; '-' is a sign only
\* for a signed type
ParseInt(src, signed, maxpos, maxneg) ==
    IF src = <<>> THEN ParseFail
    ELSE IF Len(src) = 1 /\ src[1] \in {BytePlus, ByteMinus} THEN ParseFail
    ELSE LET neg == signed /\ src[1] = ByteMinus
             digits == IF src[1] = BytePlus \/ neg THEN Tail(src) ELSE src
             r == ParseDigits(digits, 1, <<>>, IF neg THEN maxneg ELSE maxpos)
         IN  IF ~r.ok THEN ParseFail
             ELSE [ok |-> TRUE, neg |-> neg /\ r.mag # <<>>, mag |-> r.mag]

parse_i64(src) == ParseInt(src, TRUE, I64MaxMag, I64MinMag)

parse_usize(src) == ParseInt(src, FALSE, U64MaxMag, <<>>)

\* a magnitude of at most 9 digits as a number
RECURSIVE ToNat(_)
ToNat(mag) == IF mag = <<>> THEN 0 ELSE 10 * ToNat(SubSeq(mag, 1, Len(mag) - 1)) + Last(mag)

(***************************************************************************)
(* serde_json::Value, one record shape for every kind.                     *)
(*   "str":  s  = the bytes of the String                                  *)
(*   "int":  n  = [neg, mag]                                               *)
(*   "list": items                                                         *)
(*   "dict": keys[i] |-> items[i], keys ascending (serde_json's Map is a   *)
(*           BTreeMap)                                                     *)
(***************************************************************************)
ZeroNum == [neg |-> FALSE, mag |-> <<>>]

NullVal == [kind |-> "null", s |-> <<>>, n |-> ZeroNum, keys |-> <<>>, items |-> <<>>]

StrVal(bytes) == [NullVal EXCEPT !.kind = "str", !.s = bytes]

IntVal(neg, mag) == [NullVal EXCEPT !.kind = "int", !.n = [neg |-> neg, mag |-> mag]]

ListVal(v) == [NullVal EXCEPT !.kind = "list", !.items = v]

DictVal(m) == [NullVal EXCEPT !.kind = "dict", !.keys = m.keys, !.items = m.items]

EmptyMap == [keys |-> <<>>, items |-> <<>>]

\* a < b, byte strings in lexicographic order
BytesLt(a, b) ==
    \E i \in 1..(Min(Len(a), Len(b)) + 1) :
        /\ \A j \in 1..(i - 1) : a[j] = b[j]
        /\ \/ i > Len(a) /\ i <= Len(b)
           \/ i <= Len(a) /\ i <= Len(b) /\ a[i] < b[i]

InsertAt(s, i, e) == SubSeq(s, 1, i - 1) \o <<e>> \o SubSeq(s, i, Len(s))

\* Map::insert(k, v): replaces the value of a key already present
MapInsert(m, k, v) ==
    IF \E i \in 1..Len(m.keys) : m.keys[i] = k
    THEN LET i == CHOOSE i \in 1..Len(m.keys) : m.keys[i] = k
         IN  [m EXCEPT !.items[i] = v]
    ELSE LET i == Cardinality({j \in 1..Len(m.keys) : BytesLt(m.keys[j], k)}) + 1
         IN  [keys |-> InsertAt(m.keys, i, k), items |-> InsertAt(m.items, i, v)]

(***************************************************************************)
(* Result<DecodeResult, Error>: "Ok" with the value and the remainder,     *)
(* "Err", "Panic" (the process aborts), "Hang" (a loop that never ends).   *)
(***************************************************************************)
Ok(v, rest) == [tag |-> "Ok", val |-> v, rest |-> rest]

Err == [tag |-> "Err", val |-> NullVal, rest |-> <<>>]

Panic == [tag |-> "Panic", val |-> NullVal, rest |-> <<>>]

Hang == [tag |-> "Hang", val |-> NullVal, rest |-> <<>>]

\* the string decoder returning the remainder from `size` instead of `end`
decode_string_value_from_size(encoded_value) ==
    LET colon_pos == Position(encoded_value, ByteColon)
    IN  IF colon_pos < 0 THEN Err
        ELSE LET size_str == SubSeq(encoded_value, 1, colon_pos)
                 size == parse_usize(size_str)
             IN  IF ~IsValidUtf8(size_str) THEN Panic
                 ELSE IF ~size.ok THEN Err
                 ELSE IF Len(size.mag) > 9 THEN Panic
                 ELSE LET end == colon_pos + 1 + ToNat(size.mag)
                      IN  IF end > Len(encoded_value) THEN Panic
                          ELSE Ok(StrVal(from_utf8_lossy(
                                      SubSeq(encoded_value, colon_pos + 2, end))),
                                  SliceFrom(encoded_value, ToNat(size.mag)))

decode_string_value(encoded_value) ==
    LET colon_pos == Position(encoded_value, ByteColon)
    IN  IF colon_pos < 0 THEN Err
        ELSE LET size_str == SubSeq(encoded_value, 1, colon_pos)
                 size == parse_usize(size_str)
             IN  IF ~IsValidUtf8(size_str) THEN Panic
                 ELSE IF ~size.ok THEN Err
                 \* end = colon_pos + 1 + size: past the buffer the slice panics,
                 \* and so does a sum that overflows usize (wrapped, end lies
                 \* before colon_pos + 1)
                 ELSE IF Len(size.mag) > 9 THEN Panic
                 ELSE LET end == colon_pos + 1 + ToNat(size.mag)
                      IN  IF end > Len(encoded_value) THEN Panic
                          ELSE Ok(StrVal(from_utf8_lossy(
                                      SubSeq(encoded_value, colon_pos + 2, end))),
                                  SliceFrom(encoded_value, end))

decode_integer_value(encoded_value) ==
    LET end_pos == Position(encoded_value, ByteE)
    IN  IF end_pos < 0 THEN Err
        ELSE IF end_pos < 1 THEN Panic
        ELSE LET n == parse_i64(from_utf8_lossy(SubSeq(encoded_value, 2, end_pos)))
             IN  IF ~n.ok THEN Err
                 ELSE Ok(IntVal(n.neg, n.mag), SliceFrom(encoded_value, end_pos + 1))

RECURSIVE decode_bencoded_value(_), list_loop(_, _), dict_loop(_, _)

\* the while loop of decode_list_value, from the cursor `rest` with the
\* elements `v` decoded so far.  An element decoded without the cursor moving
\* leaves the loop where it was: it never ends.
list_loop(rest, v) ==
    IF rest = <<>> THEN Err
    ELSE IF Head(rest) = ByteE THEN Ok(ListVal(v), SliceFrom(rest, 1))
    ELSE LET r == decode_bencoded_value(rest)
         IN  IF r.tag # "Ok" THEN r
             ELSE IF Len(r.rest) >= Len(rest) THEN Hang
             ELSE list_loop(r.rest, Append(v, r.val))

decode_list_value(encoded_value) ==
    IF encoded_value = <<>> THEN Panic
    ELSE list_loop(SliceFrom(encoded_value, 1), <<>>)

\* the while loop of decode_dictionary_value and the return that follows it
dict_loop(rest, m) ==
    IF rest = <<>> THEN Panic
    ELSE IF Head(rest) = ByteE THEN Ok(DictVal(m), SliceFrom(rest, 1))
    ELSE LET k == decode_bencoded_value(rest)
         IN  IF k.tag # "Ok" THEN k
             ELSE LET r == decode_bencoded_value(k.rest)
                  IN  IF r.tag # "Ok" THEN r
                      ELSE IF k.val.kind # "str" THEN Panic
                      ELSE IF Len(r.rest) >= Len(rest) THEN Hang
                      ELSE dict_loop(r.rest, MapInsert(m, k.val.s, r.val))

decode_dictionary_value(encoded_value) ==
    IF encoded_value = <<>> THEN Panic
    ELSE LET rest == SliceFrom(encoded_value, 1)
         IN  IF rest # <<>> /\ Last(rest) # ByteE THEN Err
             ELSE dict_loop(rest, EmptyMap)

decode_bencoded_value(encoded_value) ==
    IF encoded_value = <<>> THEN Panic
    ELSE LET next_char == Head(encoded_value)
         IN  IF is_ascii_digit(next_char) THEN decode_string_value(encoded_value)
             ELSE IF next_char = ByteI THEN decode_integer_value(encoded_value)
             ELSE IF next_char = ByteL THEN decode_list_value(encoded_value)
             ELSE IF next_char = ByteD THEN decode_dictionary_value(encoded_value)
             ELSE Err

(***************************************************************************)
(* The decode command: decode_bencoded_value applied to the argument.      *)
(***************************************************************************)
MaxLen == 6

\* the bytes the buffers are drawn from: two digits, the delimiters, the
\* three kind letters and one byte that no UTF-8 text contains
Alphabet == {ByteZero, ByteZero + 1, ByteColon, ByteE, ByteI, ByteL, ByteD, 255}

NoDoc == [file |-> "none"]

NoTorrent == [tag |-> "none"]

NoOut == [tag |-> "none", val |-> NullVal, rest |-> <<>>]

InitDecode ==
    /\ \E k \in 0..MaxLen : buf \in [1..k -> Alphabet]
    /\ doc = NoDoc
    /\ torrent = NoTorrent
    /\ op = "none"
    /\ out = NoOut

Decode ==
    /\ op = "none"
    /\ op' = "decode"
    /\ out' = decode_bencoded_value(buf)
    /\ UNCHANGED <<buf, doc, torrent>>

Next == Decode

Spec == InitDecode /\ [][Next]_vars

(***************************************************************************)
(* The bencode wire format, as serde_bencode::to_bytes writes it.          *)
(***************************************************************************)
RECURSIVE DecBytes(_)
DecBytes(n) ==
    IF n < 10 THEN <<ByteZero + n>> ELSE Append(DecBytes(n \div 10), ByteZero + (n % 10))

EncBytes(b) == DecBytes(Len(b)) \o <<ByteColon>> \o b

EncNum(n) ==
    <<ByteI>> \o (IF n.neg THEN <<ByteMinus>> ELSE <<>>)
        \o (IF n.mag = <<>> THEN <<ByteZero>> ELSE [i \in 1..Len(n.mag) |-> ByteZero + n.mag[i]])
        \o <<ByteE>>

RECURSIVE Encode(_), EncodeAll(_), EncodePairs(_, _)
EncodeAll(items) ==
    IF items = <<>> THEN <<>> ELSE Encode(Head(items)) \o EncodeAll(Tail(items))

EncodePairs(keys, items) ==
    IF keys = <<>> THEN <<>>
    ELSE EncBytes(Head(keys)) \o Encode(Head(items)) \o EncodePairs(Tail(keys), Tail(items))

Encode(v) ==
    IF v.kind = "str" THEN EncBytes(v.s)
    ELSE IF v.kind = "int" THEN EncNum(v.n)
    ELSE IF v.kind = "list" THEN <<ByteL>> \o EncodeAll(v.items) \o <<ByteE>>
    ELSE <<ByteD>> \o EncodePairs(v.keys, v.items) \o <<ByteE>>

IsPrefix(p, x) == Len(p) <= Len(x) /\ SubSeq(x, 1, Len(p)) = p

IsStrictSuffix(r, x) == Len(r) < Len(x) /\ SubSeq(x, Len(x) - Len(r) + 1, Len(x)) = r

\* one value of each kind, and a list and a dictionary that hold something
WellFormedValues ==
    { StrVal(<<>>), StrVal(<<ByteZero>>), IntVal(FALSE, <<>>), IntVal(FALSE, <<1>>),
      ListVal(<<>>), ListVal(<<StrVal(<<>>)>>),
      DictVal(EmptyMap), DictVal([keys |-> <<(<<>>)>>, items |-> <<StrVal(<<>>)>>]) }

\* C1: decode_bencoded_value ends in a value or an error value on every byte
\* sequence: it never aborts the process.
C1_NeverAborts == op = "decode" => out.tag \in {"Ok", "Err"}

\* C2: for a well-formed encoding v of one value and any bytes s after it,
\* decode(v ++ s) is that value with exactly s as the remainder.
C2_ExactRemainder ==
    op = "decode" =>
        \A v \in WellFormedValues :
            IsPrefix(Encode(v), buf) => out = Ok(v, SliceFrom(buf, Len(Encode(v))))

\* C5: decoding <n>:<payload> gives exactly the n payload bytes, whatever
\* they are.
C5_PayloadVerbatim ==
    op = "decode" =>
        \A n \in 0..MaxLen :
            LET head == Append(DecBytes(n), ByteColon)
            IN  (IsPrefix(head, buf) /\ Len(buf) >= Len(head) + n) =>
                    /\ out.tag = "Ok"
                    /\ out.val = StrVal(SubSeq(buf, Len(head) + 1, Len(head) + n))

\* C10: a successful decode returns a strict suffix of its input, and no
\* input makes the element loops run forever.
C10_Progress ==
    op = "decode" =>
        /\ out.tag # "Hang"
        /\ out.tag = "Ok" => IsStrictSuffix(out.rest, buf)

\* the list loop has run twice and returned
C10_Witness ==
    op = "decode" /\ out.tag = "Ok" /\ out.val.kind = "list" /\ Len(out.val.items) >= 2

(***************************************************************************)
(* Integers around the 64-bit limits: i<sign><digits>e, the digits a       *)
(* prefix of 9223372036854775807 followed by a few more.                   *)
(***************************************************************************)
MaxTail == 2

TailDigits == {ByteZero, ByteZero + 7, ByteZero + 8, ByteZero + 9}

Signs == {<<>>, <<ByteMinus>>, <<BytePlus>>}

AsBytes(mag) == [i \in 1..Len(mag) |-> ByteZero + mag[i]]

InitInt ==
    /\ \E sign \in Signs, k \in 0..Len(I64MaxMag), j \in 0..MaxTail :
         \E t \in [1..j -> TailDigits] :
            buf = <<ByteI>> \o sign \o AsBytes(SubSeq(I64MaxMag, 1, k)) \o t \o <<ByteE>>
    /\ doc = NoDoc
    /\ torrent = NoTorrent
    /\ op = "none"
    /\ out = NoOut

SpecInt == InitInt /\ [][Next]_vars

\* the digits of i<sign><digits>e
IntDigits(x) ==
    LET body == SubSeq(x, 2, Len(x) - 1)
    IN  IF body # <<>> /\ Head(body) \in {BytePlus, ByteMinus} THEN Tail(body) ELSE body

IntNegative(x) == Len(x) > 2 /\ x[2] = ByteMinus

RECURSIVE StripZeros(_)
StripZeros(digits) ==
    IF digits # <<>> /\ Head(digits) = 0 THEN StripZeros(Tail(digits)) ELSE digits

\* the number the decimal text denotes
Denoted(x) == StripZeros([i \in 1..Len(IntDigits(x)) |-> IntDigits(x)[i] - ByteZero])

\* C9: an integer outside [-2^63, 2^63 - 1] fails to decode, and one inside
\* decodes to exactly the number its digits denote.
C9_Int64Range ==
    (op = "decode" /\ IntDigits(buf) # <<>>) =>
        IF BigLeq(Denoted(buf), IF IntNegative(buf) THEN I64MinMag ELSE I64MaxMag)
        THEN out = Ok(IntVal(IntNegative(buf) /\ Denoted(buf) # <<>>, Denoted(buf)), <<>>)
        ELSE out.tag = "Err"

\* 2^63 itself, one past the largest value, has been refused
C9_Witness ==
    op = "decode" /\ buf = <<ByteI>> \o AsBytes(I64MinMag) \o <<ByteE>> /\ out.tag = "Err"

(***************************************************************************)
(* The tracker response: TrackerResponse's `peers` field through           *)
(* deserialize_peers.  buf holds the bytes of the field; doc.peers says    *)
(* what the response carries there.                                        *)
(***************************************************************************)
MaxPeerBytes == 12

PeerRecordLen == 6

PeerBytes == {1, 200}

\* chunks_exact(n): the complete n-byte chunks in order, the rest dropped
chunks_exact(x, n) == [i \in 1..(Len(x) \div n) |-> SubSeq(x, (i - 1) * n + 1, i * n)]

\* the port read low byte first
PeerOfLittleEndian(chunk) ==
    [ip |-> <<chunk[1], chunk[2], chunk[3], chunk[4]>>, port |-> chunk[6] * 256 + chunk[5]]

\* Ipv4Addr::new(chunk[0..3]) and u16::from_be_bytes([chunk[4], chunk[5]])
PeerOf(chunk) ==
    [ip |-> <<chunk[1], chunk[2], chunk[3], chunk[4]>>, port |-> chunk[5] * 256 + chunk[6]]

\* the ByteBuf is read first; a field that is no byte string is an error
deserialize_peers(kind, bytes) ==
    IF kind # "bytes" THEN [tag |-> "Err", peers |-> <<>>]
    ELSE LET chunks == chunks_exact(bytes, PeerRecordLen)
         IN  [tag |-> "Ok", peers |-> [i \in 1..Len(chunks) |-> PeerOf(chunks[i])]]

InitPeers ==
    /\ \/ /\ doc = [file |-> "response", peers |-> "bytes"]
          /\ \E k \in 0..MaxPeerBytes : buf \in [1..k -> PeerBytes]
       \/ /\ doc \in {[file |-> "response", peers |-> "list"],
                      [file |-> "response", peers |-> "absent"]}
          /\ buf = <<>>
    /\ torrent = NoTorrent
    /\ op = "none"
    /\ out = NoOut

DecodeTrackerResponse ==
    /\ op = "none"
    /\ op' = "peers"
    /\ out' = deserialize_peers(doc.peers, buf)
    /\ UNCHANGED <<buf, doc, torrent>>

NextPeers == DecodeTrackerResponse

SpecPeers == InitPeers /\ [][NextPeers]_vars

\* C3: a peers string whose length is no multiple of 6 is an error, never
\* the peers of its leading complete records.
C3_RejectsPartial ==
    (op = "peers" /\ Len(buf) % PeerRecordLen # 0) => out.tag = "Err"

\* C7: a peers string of 6*k bytes gives k peers, peer i from bytes
\* 6i..6i+5: four address octets, then the port high byte first; order and
\* duplicates are kept.
C7_PeersInOrder ==
    (op = "peers" /\ doc.peers = "bytes" /\ Len(buf) % 6 = 0) =>
        /\ out.tag = "Ok"
        /\ Len(out.peers) * 6 = Len(buf)
        /\ \A i \in 0..(Len(out.peers) - 1) :
              /\ out.peers[i + 1].ip = SubSeq(buf, 6 * i + 1, 6 * i + 4)
              /\ out.peers[i + 1].port = 256 * buf[6 * i + 5] + buf[6 * i + 6]

\* two equal records have been decoded to two equal peers, with a port whose
\* two bytes differ
C7_Witness ==
    /\ op = "peers"
    /\ out.tag = "Ok"
    /\ Len(out.peers) = 2
    /\ out.peers[1] = out.peers[2]
    /\ out.peers[1].port = 256 + 200

(***************************************************************************)
(* The metainfo model.  serde_bencode::from_bytes::<Torrent> is modelled   *)
(* on the decoded document: doc.top is the bencode value the file holds,   *)
(* and the derived Deserialize of Torrent / Info / Keys / File projects    *)
(* it field by field.                                                      *)
(***************************************************************************)
KeyAnnounce == <<97, 110, 110, 111, 117, 110, 99, 101>>
KeyInfo == <<105, 110, 102, 111>>
KeyName == <<110, 97, 109, 101>>
KeyPieceLength == <<112, 105, 101, 99, 101, 32, 108, 101, 110, 103, 116, 104>>
KeyPieces == <<112, 105, 101, 99, 101, 115>>
KeyLength == <<108, 101, 110, 103, 116, 104>>
KeyFiles == <<102, 105, 108, 101, 115>>
KeyPath == <<112, 97, 116, 104>>
KeyPrivate == <<112, 114, 105, 118, 97, 116, 101>>

Has(v, k) == \E i \in 1..Len(v.keys) : v.keys[i] = k

Get(v, k) == v.items[CHOOSE i \in 1..Len(v.keys) : v.keys[i] = k]

\* usize from a bencode integer
IsUsize(v) == v.kind = "int" /\ ~v.n.neg

\* String from a bencode byte string
IsString(v) == v.kind = "str" /\ IsValidUtf8(v.s)

IsPathList(v) == v.kind = "list" /\ \A i \in 1..Len(v.items) : IsString(v.items[i])

\* struct File { length: usize, path: Vec<String> }
IsFile(v) == v.kind = "dict" /\ Has(v, KeyLength) /\ IsUsize(Get(v, KeyLength)) /\ Has(v, KeyPath) /\ IsPathList(Get(v, KeyPath))

NoKeys == [ok |-> FALSE, variant |-> "none", length |-> <<>>, path |-> <<>>]

\* #[serde(untagged)] enum Keys: the first variant the fields fit
DeserializeKeys(v) ==
    IF Has(v, KeyLength) /\ IsUsize(Get(v, KeyLength))
    THEN [ok |-> TRUE, variant |-> "SingleFile", length |-> Get(v, KeyLength).n.mag,
          path |-> <<>>]
    ELSE IF Has(v, KeyFiles) /\ IsFile(Get(v, KeyFiles))
    THEN [ok |-> TRUE, variant |-> "MultiFile",
          length |-> Get(Get(v, KeyFiles), KeyLength).n.mag,
          path |-> [i \in 1..Len(Get(Get(v, KeyFiles), KeyPath).items) |->
                        Get(Get(v, KeyFiles), KeyPath).items[i].s]]
    ELSE NoKeys

\* deserialize_pieces: any byte string
IsByteBuf(v) == v.kind = "str"

\* struct Info
InfoOk(v) ==
    /\ v.kind = "dict"
    /\ Has(v, KeyName) /\ IsString(Get(v, KeyName))
    /\ Has(v, KeyPieceLength) /\ IsUsize(Get(v, KeyPieceLength))
    /\ Has(v, KeyPieces) /\ IsByteBuf(Get(v, KeyPieces))
    /\ DeserializeKeys(v).ok

DeserializeInfo(v) ==
    [name |-> Get(v, KeyName).s,
     piece_length |-> Get(v, KeyPieceLength).n.mag,
     pieces |-> Get(v, KeyPieces).s,
     keys |-> DeserializeKeys(v)]

\* struct Torrent
TorrentOk(v) ==
    v.kind = "dict" /\ Has(v, KeyAnnounce) /\ IsString(Get(v, KeyAnnounce)) /\ Has(v, KeyInfo) /\ InfoOk(Get(v, KeyInfo))

DeserializeTorrent(v) ==
    [announce |-> Get(v, KeyAnnounce).s, info |-> DeserializeInfo(Get(v, KeyInfo))]

\* fs::read, then serde_bencode::from_bytes::<Torrent>(&data).unwrap()
parse_torrent(d) ==
    IF d.file = "missing" THEN [tag |-> "Err"]
    ELSE IF d.file = "garbage" \/ ~TorrentOk(d.top) THEN [tag |-> "Panic"]
    ELSE [tag |-> "Ok", t |-> DeserializeTorrent(d.top)]

\* the derived Serialize of Keys and File, into the map being written
SerializeKeys(m, keys) ==
    IF keys.variant = "SingleFile" THEN MapInsert(m, KeyLength, IntVal(FALSE, keys.length))
    ELSE MapInsert(m, KeyFiles,
             DictVal(MapInsert(MapInsert(EmptyMap, KeyLength, IntVal(FALSE, keys.length)),
                               KeyPath,
                               ListVal([i \in 1..Len(keys.path) |-> StrVal(keys.path[i])]))))

\* the derived Serialize of Info: its named fields, then the flattened keys;
\* serde_bencode writes the entries in ascending key order
SerializeInfo(info) ==
    DictVal(SerializeKeys(
        MapInsert(MapInsert(MapInsert(EmptyMap, KeyName, StrVal(info.name)),
                            KeyPieceLength, IntVal(FALSE, info.piece_length)),
                  KeyPieces, StrVal(info.pieces)),
        info.keys))

encoded_info(t) == Encode(SerializeInfo(t.info))

DigestLen == 20

\* chunks(n): consecutive n-byte chunks, the last one whatever is left
chunks(x, n) ==
    [i \in 1..((Len(x) + n - 1) \div n) |-> SubSeq(x, (i - 1) * n + 1, Min(i * n, Len(x)))]

HexDigit(d) == IF d < 10 THEN ByteZero + d ELSE 87 + d

RECURSIVE hex_encode(_)
hex_encode(x) ==
    IF x = <<>> THEN <<>>
    ELSE <<HexDigit(Head(x) \div 16), HexDigit(Head(x) % 16)>> \o hex_encode(Tail(x))

pieces_hash(t) ==
    LET c == chunks(t.info.pieces, DigestLen) IN [i \in 1..Len(c) |-> hex_encode(c[i])]

(***************************************************************************)
(* Torrent files: every combination of a present, absent or wrongly typed  *)
(* field, a pieces string of every length up to MaxPiecesLen, the file     *)
(* layouts, and a key the typed model does not name.  The dictionaries     *)
(* are built in ascending key order, as a canonical encoder writes them.   *)
(***************************************************************************)
MaxPiecesLen == 41

RECURSIVE MapOf(_)
MapOf(pairs) ==
    IF pairs = <<>> THEN EmptyMap
    ELSE MapInsert(MapOf(Tail(pairs)), Head(pairs)[1], Head(pairs)[2])

Text == StrVal(<<110>>)

One == IntVal(FALSE, <<1>>)

FileDict == DictVal(MapOf(<<<<KeyLength, One>>, <<KeyPath, ListVal(<<Text>>)>>>>))

AnnounceOpts == {<<>>, <<<<KeyAnnounce, Text>>>>, <<<<KeyAnnounce, One>>>>}

NameOpts == {<<>>, <<<<KeyName, Text>>>>, <<<<KeyName, One>>>>}

PieceLengthOpts == {<<>>, <<<<KeyPieceLength, One>>>>, <<<<KeyPieceLength, Text>>>>}

PiecesOpts ==
    {<<>>, <<<<KeyPieces, One>>>>}
        \cup {<<<<KeyPieces, StrVal([i \in 1..k |-> i])>>>> : k \in 0..MaxPiecesLen}

LayoutOpts ==
    { <<>>,
      <<<<KeyLength, One>>>>,
      <<<<KeyLength, IntVal(TRUE, <<1>>)>>>>,
      <<<<KeyFiles, FileDict>>>>,
      <<<<KeyFiles, ListVal(<<FileDict>>)>>>>,
      <<<<KeyLength, One>>, <<KeyFiles, FileDict>>>> }

ExtraOpts == {<<>>, <<<<KeyPrivate, One>>>>}

InfoDicts ==
    { DictVal(MapOf(nm \o pl \o pc \o lay \o ex)) :
        nm \in NameOpts, pl \in PieceLengthOpts, pc \in PiecesOpts,
        lay \in LayoutOpts, ex \in ExtraOpts }

InfoOpts == {<<>>, <<<<KeyInfo, One>>>>} \cup {<<<<KeyInfo, d>>>> : d \in InfoDicts}

InitTorrent ==
    /\ \/ doc \in {[file |-> "missing", top |-> NullVal], [file |-> "garbage", top |-> NullVal]}
       \/ \E a \in AnnounceOpts, i \in InfoOpts :
             doc = [file |-> "bencode", top |-> DictVal(MapOf(a \o i))]
    /\ buf = <<>>
    /\ torrent = NoTorrent
    /\ op = "none"
    /\ out = NoOut

ParseTorrent ==
    /\ op = "none"
    /\ op' = "parse"
    /\ torrent' = parse_torrent(doc)
    /\ UNCHANGED <<buf, doc, out>>

\* hash_info: the digest is SHA-1 of encoded_info; out keeps what is hashed
HashInfo ==
    /\ op = "parse"
    /\ torrent.tag = "Ok"
    /\ op' = "hash_info"
    /\ out' = [tag |-> "Ok", bytes |-> encoded_info(torrent.t)]
    /\ UNCHANGED <<buf, doc, torrent>>

PiecesHash ==
    /\ op = "parse"
    /\ torrent.tag = "Ok"
    /\ op' = "pieces_hash"
    /\ out' = [tag |-> "Ok", hashes |-> pieces_hash(torrent.t)]
    /\ UNCHANGED <<buf, doc, torrent>>

NextTorrent == ParseTorrent \/ HashInfo \/ PiecesHash

SpecTorrent == InitTorrent /\ [][NextTorrent]_vars

\* the pieces string of the file, when the info dictionary holds one
HasPieces(d) ==
    /\ d.file = "bencode"
    /\ Has(d.top, KeyInfo)
    /\ Get(d.top, KeyInfo).kind = "dict"
    /\ Has(Get(d.top, KeyInfo), KeyPieces)
    /\ IsByteBuf(Get(Get(d.top, KeyInfo), KeyPieces))

SourcePieces(d) == Get(Get(d.top, KeyInfo), KeyPieces).s

\* C4: the bytes hash_info hashes are the info dictionary of the file, byte
\* for byte, whatever keys it carries.
C4_InfoBytesFaithful ==
    op = "hash_info" => out.bytes = Encode(Get(doc.top, KeyInfo))

\* C6: a pieces string whose length is no multiple of 20 is refused at
\* parse (no Torrent comes of it), so every piece hash is a whole 20-byte
\* digest (40 hex digits).
C6_WholeDigests ==
    /\ (op = "parse" /\ HasPieces(doc) /\ Len(SourcePieces(doc)) % 20 # 0) =>
           torrent.tag # "Ok"
    /\ op = "pieces_hash" => \A i \in 1..Len(out.hashes) : Len(out.hashes[i]) = 40

\* C8: parse_torrent returns an error value on a file that lacks a field,
\* has one of the wrong kind, or is not bencode; it does not abort.
C8_ParseErrorIsValue ==
    op = "parse" =>
        /\ torrent.tag # "Panic"
        /\ (doc.file = "garbage" \/ ~TorrentOk(doc.top)) => torrent.tag = "Err"

====
